---- MODULE Spec2Model ----
(***************************************************************************)
(* ECOSTRESS acquisition-and-processing pipeline of sat-water-temps:       *)
(* the admin trigger and reprocess endpoints, the request ledger           *)
(* (ecostress_requests), the job ledger (processing_jobs), the derived     *)
(* status view, the Step Functions polling machine, fan-out and the        *)
(* per-scene worker.                                                       *)
(***************************************************************************)
EXTENDS Integers, Sequences, FiniteSets, TLC

\* ---------------------------------------------------------------- bounds
MaxTasks == 2          \* task ids the provider can hand out
MaxScenes == 2         \* scenes in one provider manifest
MaxPosts == 2          \* reprocess POSTs running at the same time
MaxTriggers == 1       \* trigger POSTs running at the same time
MaxDays == 2           \* last day number a range trigger can name
RetentionWindow == 0   \* provider sample-retention window, in clock ticks
MaxPixels == 3          \* pixels in one scene
MaxFiles == 3           \* files in one manifest
\* the trigger endpoints
TrigRequests == 2      \* rows inserted by the trigger endpoints
TrigTime == 1          \* clock ticks
\* one polling execution
PollPolls == 3         \* DoubleWait passes of the execution
MaxExecs == 2           \* executions followed by the polling specification
WorkJobs == 5          \* rows ever inserted into processing_jobs by the workers
LiveReprocess == 2      \* rows inserted by the reprocess endpoint (liveness)
LiveJobs == 5           \* rows ever inserted into processing_jobs (liveness)
RangeRequests == 3      \* rows inserted by the range trigger
FarDay == 62            \* a day number more than MAX_RANGE_DAYS after the first days
PollJobs == 3          \* rows ever inserted into processing_jobs
\* the reprocess endpoint
Originals == 2         \* completed requests the reprocess POSTs can name
RepReprocess == 2      \* rows inserted by the reprocess endpoint
RepTime == 1           \* clock ticks
RepJobs == 5           \* rows ever inserted into processing_jobs
\* the pipeline of one day's request
PipeRequests == 1      \* rows inserted by the trigger
PipeReprocess == 1     \* rows inserted by the reprocess endpoint
PipePolls == 1         \* DoubleWait passes of one polling execution
PipeJobs == 4          \* rows ever inserted into processing_jobs

\* ------------------------------------------------------ program constants
MAX_RANGE_DAYS == 60
BaseWait == 30
IntervalSeconds == 60
MaxAttempts == 3
BackoffRate == 2

\* SQL NULL of an INTEGER / TEXT column
NULL == 0 - 1

VARIABLES
    now,        \* Date.now()
    requests,   \* table ecostress_requests; id = index (AUTOINCREMENT)
    jobs,       \* table processing_jobs; id = index (AUTOINCREMENT)
    provider,   \* provider-side status of each task id
    manifest,   \* number of scenes in the provider manifest of each task
    execs,      \* executions of the polling state machine
    queue,      \* messages of eco_processing_queue
    posts,      \* running invocations of POST /api/admin/reprocess
    triggers,   \* running invocations of the trigger POSTs
    config,     \* the deployment: which invocation credentials platform.env holds,
                \* whether ecostress_requests still has its status column
    resp,       \* the HTTP response sent by the last step, if any
    metadata,   \* table temperature_metadata, in insertion order
    pixels,     \* the per-pixel record set a processor invocation has assembled
    files,      \* the manifest a manifest processor invocation has retrieved
    out         \* what that invocation computed from pixels or files

Max(a, b) == IF a >= b THEN a ELSE b

vars == <<now, requests, jobs, provider, manifest, execs, queue, posts, triggers,
          config, resp, metadata, pixels, files, out>>

Tasks == 1..Max(MaxTasks, Originals)


\* ------------------------------------------------------------ the ledgers

\* INSERT INTO ecostress_requests (... created_at) of the reprocess and
\* range-trigger endpoints: no status is written.  The field status holds what
\* a statement wrote into the status column, "none" when none did.
RequestRow(task, trig, created) ==
    [task_id |-> task, trigger_type |-> trig, scenes_count |-> NULL,
     created_at |-> created, error_message |-> FALSE, status |-> "none",
     start_date |-> 1]

JobRow(type, task, scene, st) ==
    [job_type |-> type, task_id |-> task, scene |-> scene, status |-> st]

JobIds(pj, type, task) ==
    {i \in DOMAIN pj : pj[i].job_type = type /\ pj[i].task_id = task}

MinOf(S) == CHOOSE x \in S : \A y \in S : x <= y

\* (SELECT status FROM processing_jobs pj WHERE pj.task_id = er.task_id
\*   AND pj.job_type = 'submit' LIMIT 1)
SubmitStatus(pj, task) ==
    IF JobIds(pj, "submit", task) = {} THEN "NULL"
    ELSE pj[MinOf(JobIds(pj, "submit", task))].status

\* (SELECT COUNT(*) ... job_type = 'process' AND status IN (...))
ProcessCount(pj, task, statuses) ==
    Cardinality({i \in JobIds(pj, "process", task) : pj[i].status \in statuses})

\* The view with = in place of >= in the completion test.
view_CountEquals(er, pj) ==
    IF er.task_id = NULL THEN "pending"
    ELSE IF SubmitStatus(pj, er.task_id) = "failed" THEN "failed"
    ELSE IF er.scenes_count = NULL THEN "processing"
    ELSE IF er.scenes_count = 0 THEN "completed"
    ELSE IF ProcessCount(pj, er.task_id, {"success", "failed"}) = er.scenes_count
         THEN IF ProcessCount(pj, er.task_id, {"failed"}) > 0
              THEN "completed_with_errors"
              ELSE "completed"
    ELSE "processing"

\* The view as it was before scenes_count = 0 was made completed.
view_ZeroScenesProcessing(er, pj) ==
    IF er.task_id = NULL THEN "pending"
    ELSE IF SubmitStatus(pj, er.task_id) = "failed" THEN "failed"
    ELSE IF er.scenes_count = NULL \/ er.scenes_count = 0 THEN "processing"
    ELSE IF ProcessCount(pj, er.task_id, {"success", "failed"}) >= er.scenes_count
         THEN IF ProcessCount(pj, er.task_id, {"failed"}) > 0
              THEN "completed_with_errors"
              ELSE "completed"
    ELSE "processing"

\* The CASE expression of the view ecostress_requests_with_status.
ecostress_requests_with_status(er, pj) ==
    IF er.task_id = NULL THEN "pending"
    ELSE IF SubmitStatus(pj, er.task_id) = "failed" THEN "failed"
    ELSE IF er.scenes_count = NULL THEN "processing"
    ELSE IF er.scenes_count = 0 THEN "completed"
    ELSE IF ProcessCount(pj, er.task_id, {"success", "failed"}) >= er.scenes_count
         THEN IF ProcessCount(pj, er.task_id, {"failed"}) > 0
              THEN "completed_with_errors"
              ELSE "completed"
    ELSE "processing"

\* (SELECT status FROM processing_jobs pj WHERE pj.task_id = er.task_id
\*   AND pj.job_type = 'scrape' LIMIT 1)
ScrapeStatus(pj, task) ==
    IF JobIds(pj, "scrape", task) = {} THEN "NULL"
    ELSE pj[MinOf(JobIds(pj, "scrape", task))].status

\* The CASE expression in the query of getEcostressRequests (db.ts).
getEcostressRequests(er, pj) ==
    IF er.task_id = NULL THEN "pending"
    ELSE IF ScrapeStatus(pj, er.task_id) = "failed" THEN "failed"
    ELSE IF er.scenes_count = NULL \/ er.scenes_count = 0 THEN "processing"
    ELSE IF ProcessCount(pj, er.task_id, {"success", "failed"}) >= er.scenes_count
         THEN IF ProcessCount(pj, er.task_id, {"failed"}) > 0
              THEN "completed_with_errors"
              ELSE "completed"
    ELSE "processing"

\* The CASE expression in the query of getEcostressRequestDetail (db.ts).
getEcostressRequestDetail(er, pj) ==
    IF er.task_id = NULL THEN "pending"
    ELSE IF ScrapeStatus(pj, er.task_id) = "failed" THEN "failed"
    ELSE IF er.scenes_count = NULL \/ er.scenes_count = 0 THEN "processing"
    ELSE IF ProcessCount(pj, er.task_id, {"success", "failed"}) >= er.scenes_count
         THEN IF ProcessCount(pj, er.task_id, {"failed"}) > 0
              THEN "completed_with_errors"
              ELSE "completed"
    ELSE "processing"

\* status of request id r as the view shows it in the current state
Status(r) == ecostress_requests_with_status(requests[r], jobs)

\* a handler slot that runs no invocation
Idle == [pc |-> "idle"]

\* json(...) of an endpoint: status code and the fields the claims read
Response(endpoint, code, ids, successful, failed) ==
    [endpoint |-> endpoint, code |-> code, ids |-> ids,
     successful |-> successful, failed |-> failed, count |-> 0]

\* the step sent no response
NoResponse == Response("none", 0, <<>>, 0, 0)

\* SELECT COUNT(*) FROM ecostress_requests WHERE trigger_type = ?
\* no manifest processor or processor invocation is being looked at
NoOutput == [kind |-> "none"]

NoInvocation == pixels = <<>> /\ files = <<>> /\ out = NoOutput

NumRows(er, trig) == Cardinality({r \in DOMAIN er : er[r].trigger_type = trig})

Init ==
    /\ now = 0
    /\ requests = <<>>
    /\ jobs = <<>>
    /\ provider = [t \in Tasks |-> "none"]
    /\ manifest = [t \in Tasks |-> NULL]
    /\ execs = <<>>
    /\ queue = {}
    /\ posts = [p \in 1..MaxPosts |-> Idle]
    /\ triggers = [h \in 1..MaxTriggers |-> Idle]
    /\ config \in [lambda : BOOLEAN, sfn : BOOLEAN, status_column : BOOLEAN]
    /\ resp = NoResponse
    /\ metadata = <<>>
    /\ NoInvocation

\* Date.now() advances
Tick ==
    /\ now' = now + 1
    /\ resp' = NoResponse
    /\ UNCHANGED <<requests, jobs, provider, manifest, execs, queue, posts, triggers, config,
                   metadata, pixels, files, out>>

\* ------------------------------------------------- small table helpers

SetTaskId(er, r, task) == [er EXCEPT ![r].task_id = task]

SetErrorMessage(er, r) == [er EXCEPT ![r].error_message = TRUE]

\* SELECT id FROM ecostress_requests WHERE created_at = ? AND triggered_by = ?
\*   ORDER BY id DESC LIMIT 1      (one admin user)
InsertedId(er, created) ==
    CHOOSE i \in DOMAIN er :
        /\ er[i].created_at = created
        /\ \A j \in DOMAIN er : er[j].created_at = created => j <= i

\* the lowest idle slot of a handler table
FreeSlot(slots) ==
    CHOOSE h \in DOMAIN slots :
        slots[h] = Idle /\ \A g \in DOMAIN slots : slots[g] = Idle => h <= g

HasFreeSlot(slots) == \E h \in DOMAIN slots : slots[h] = Idle

\* execution input {task_id, wait_seconds} of StartExecution
Execution(task, wait) ==
    [task_id |-> task, wait_seconds |-> wait, status_result |-> "none",
     state |-> "WaitDynamic", input |-> [task_id |-> task, wait_seconds |-> wait],
     doubles |-> 0, retries |-> 0, interval |-> 0, pm |-> 0]

NextTask ==
    CHOOSE t \in Tasks :
        provider[t] = "none" /\ \A u \in Tasks : provider[u] = "none" => t <= u

\* --------------------------------------- POST /api/admin/trigger (one day)

\* The INSERT of the one-day trigger names the status column.
TriggerRow(created) ==
    [RequestRow(NULL, "manual", created) EXCEPT !.status = "pending"]

\* The UPDATE of the one-day trigger when the initiator call fails.
TriggerFailed(er, r) == [SetErrorMessage(er, r) EXCEPT ![r].status = "failed"]

\* Early returns, then the INSERT.  The statement names the status column:
\* on the schema that has dropped the column D1 rejects it and the request
\* ends with an unhandled error.
TriggerPost(env, date) ==
    /\ IF env = "nodb" THEN
           /\ resp' = Response("trigger", 500, <<>>, 0, 0)
           /\ UNCHANGED <<requests, triggers>>
       ELSE IF env = "noauth" THEN
           /\ resp' = Response("trigger", 401, <<>>, 0, 0)
           /\ UNCHANGED <<requests, triggers>>
       ELSE IF date # "valid" THEN
           /\ resp' = Response("trigger", 400, <<>>, 0, 0)
           /\ UNCHANGED <<requests, triggers>>
       ELSE IF ~config.status_column THEN
           /\ resp' = Response("trigger", 500, <<>>, 0, 0)
           /\ UNCHANGED <<requests, triggers>>
       ELSE
           /\ HasFreeSlot(triggers)
           /\ requests' = Append(requests, TriggerRow(now))
           /\ triggers' = [triggers EXCEPT ![FreeSlot(triggers)] =
                  [pc |-> "lookup", kind |-> "single", days |-> 1, requestId |-> 0,
                   nowIns |-> now, jobId |-> 0, ids |-> <<>>,
                   successful |-> 0, failed |-> 0]]
           /\ resp' = NoResponse
    /\ UNCHANGED <<now, jobs, provider, manifest, execs, queue, posts, config, metadata,
                   pixels, files, out>>

\* Look the inserted id up, then call the initiator Function URL.  The fetch
\* either reaches the initiator, which logs its submit job as started, or
\* throws before the initiator runs.
TriggerLookup(h, reached) ==
    /\ triggers[h].pc = "lookup"
    /\ LET id == InsertedId(requests, triggers[h].nowIns) IN
       IF ~config.lambda THEN
           /\ resp' = Response("trigger", 202, <<id>>, 0, 0)
           /\ triggers' = [triggers EXCEPT ![h] = Idle]
           /\ UNCHANGED <<requests, jobs>>
       ELSE IF reached THEN
           /\ jobs' = Append(jobs, JobRow("submit", NULL, 0, "started"))
           /\ triggers' = [triggers EXCEPT ![h].pc = "lambda", ![h].requestId = id,
                                           ![h].jobId = Len(jobs) + 1]
           /\ resp' = NoResponse
           /\ UNCHANGED requests
       ELSE
           /\ requests' = TriggerFailed(requests, id)
           /\ resp' = Response("trigger", 500, <<id>>, 0, 0)
           /\ triggers' = [triggers EXCEPT ![h] = Idle]
           /\ UNCHANGED jobs
    /\ UNCHANGED <<now, provider, manifest, execs, queue, posts, config, metadata, pixels,
                   files, out>>

\* ------------------------------------ POST trigger for a range of days

\* enumerateDays leaving the last day out.
enumerateDays_Exclusive(start, end) == IF end <= start THEN 0 ELSE end - start

\* enumerateDays(start, end).length: one entry per day from start to end
enumerateDays(start, end) == IF end < start THEN 0 ELSE end - start + 1

\* Early returns and validation; no row is written yet.
\* start, end: a day number, 0 for a missing one, NULL for a malformed one.
RangePost(env, start, end) ==
    /\ IF env = "nodb" THEN
           /\ resp' = Response("range", 500, <<>>, 0, 0)
           /\ UNCHANGED triggers
       ELSE IF env = "noauth" THEN
           /\ resp' = Response("range", 401, <<>>, 0, 0)
           /\ UNCHANGED triggers
       ELSE IF \/ start = 0 \/ end = 0 \/ start = NULL \/ end = NULL
               \/ end < start
               \/ enumerateDays(start, end) > MAX_RANGE_DAYS THEN
           /\ resp' = Response("range", 400, <<>>, 0, 0)
           /\ UNCHANGED triggers
       ELSE
           /\ HasFreeSlot(triggers)
           /\ triggers' = [triggers EXCEPT ![FreeSlot(triggers)] =
                  [pc |-> "insert", kind |-> "range", start |-> start, last |-> end,
                   count |-> enumerateDays(start, end),
                   days |-> enumerateDays(start, end), requestId |-> 0,
                   nowIns |-> 0, jobId |-> 0, ids |-> <<>>,
                   successful |-> 0, failed |-> 0]]
           /\ resp' = NoResponse
    /\ UNCHANGED <<now, requests, jobs, provider, manifest, execs, queue, posts, config,
                   metadata, pixels, files, out>>

\* the handler record after the body of one loop iteration, days left
RangeContinue(t, ok, err) ==
    [t EXCEPT !.pc = "insert", !.days = t.days - 1, !.successful = t.successful + ok,
              !.failed = t.failed + err, !.requestId = 0, !.jobId = 0]

\* the response after the last loop iteration
RangeResponse(t, ok, err) ==
    IF config.lambda
    THEN [Response("range", 200, t.ids, t.successful + ok, t.failed + err)
             EXCEPT !.count = t.count]
    ELSE [Response("range", 202, t.ids, 0, 0) EXCEPT !.count = t.count]

\* One loop iteration up to the fetch: insert the day's row, call the initiator.
RangeInsert(h, reached) ==
    /\ triggers[h].pc = "insert"
    /\ LET id == Len(requests) + 1
           day == triggers[h].start + triggers[h].count - triggers[h].days
           row == [RequestRow(NULL, "manual", now) EXCEPT !.start_date = day]
           t == [triggers[h] EXCEPT !.ids = Append(@, id), !.requestId = id] IN
       IF config.lambda /\ reached THEN
           /\ requests' = Append(requests, row)
           /\ jobs' = Append(jobs, JobRow("submit", NULL, 0, "started"))
           /\ triggers' = [triggers EXCEPT ![h] =
                              [t EXCEPT !.pc = "lambda", !.jobId = Len(jobs) + 1]]
           /\ resp' = NoResponse
       ELSE
           LET err == IF config.lambda THEN 1 ELSE 0 IN
           /\ requests' = IF config.lambda
                          THEN SetErrorMessage(Append(requests, row), id)
                          ELSE Append(requests, row)
           /\ UNCHANGED jobs
           /\ IF t.days > 1
              THEN /\ triggers' = [triggers EXCEPT ![h] = RangeContinue(t, 0, err)]
                   /\ resp' = NoResponse
              ELSE /\ triggers' = [triggers EXCEPT ![h] = Idle]
                   /\ resp' = RangeResponse(t, 0, err)
    /\ UNCHANGED <<now, provider, manifest, execs, queue, posts, config, metadata, pixels,
                   files, out>>

\* ------------------------------------------------ initiator (Submitter)

\* The initiator returns to the handler that awaits it.  On success it has
\* marked its submit job success, written the task id to the request row and
\* started a polling execution with the base wait; on failure it has marked
\* the job failed and the handler records the error on the request row.
InitiatorFinish(h, ok) ==
    /\ triggers[h].pc = "lambda"
    /\ LET t == triggers[h]
           good == IF ok THEN 1 ELSE 0 IN
       /\ IF ok THEN
              /\ \E u \in Tasks : provider[u] = "none"
              /\ jobs' = [jobs EXCEPT ![t.jobId].status = "success",
                                      ![t.jobId].task_id = NextTask]
              /\ requests' = SetTaskId(requests, t.requestId, NextTask)
              /\ provider' = [provider EXCEPT ![NextTask] = "processing"]
              /\ execs' = Append(execs, Execution(NextTask, BaseWait))
          ELSE
              /\ jobs' = [jobs EXCEPT ![t.jobId].status = "failed"]
              /\ requests' = IF t.kind = "single"
                             THEN TriggerFailed(requests, t.requestId)
                             ELSE SetErrorMessage(requests, t.requestId)
              /\ UNCHANGED <<provider, execs>>
       /\ IF t.kind = "single" THEN
              /\ triggers' = [triggers EXCEPT ![h] = Idle]
              /\ resp' = Response("trigger", IF ok THEN 200 ELSE 502,
                                  <<t.requestId>>, 0, 0)
          ELSE IF t.days > 1 THEN
              /\ triggers' = [triggers EXCEPT ![h] = RangeContinue(t, good, 1 - good)]
              /\ resp' = NoResponse
          ELSE
              /\ triggers' = [triggers EXCEPT ![h] = Idle]
              /\ resp' = RangeResponse(t, good, 1 - good)
    /\ UNCHANGED <<now, manifest, queue, posts, config, metadata, pixels, files, out>>

\* ------------------------------------------------------------ provider

\* The provider finishes the extraction of a task: done with a manifest of
\* n scenes, or error.
ProviderFinish(t, result, n) ==
    /\ provider[t] = "processing"
    /\ provider' = [provider EXCEPT ![t] = result]
    /\ manifest' = [manifest EXCEPT ![t] = IF result = "done" THEN n ELSE NULL]
    /\ resp' = NoResponse
    /\ UNCHANGED <<now, requests, jobs, execs, queue, posts, triggers, config, metadata,
                   pixels, files, out>>

\* ------------------------------------------- polling state machine

Running(e) == e.state \in {"WaitDynamic", "CheckStatus", "IsDone?", "DoubleWait",
                           "ProcessManifest"}

\* an execution that has ended carries no state data any more
Ended(e, state) ==
    [e EXCEPT !.state = state, !.wait_seconds = 0, !.status_result = "none",
              !.doubles = 0, !.retries = 0, !.interval = 0]

\* WaitDynamic: Wait, SecondsPath $.wait_seconds, Next CheckStatus
WaitDynamic(e) ==
    IF e.state = "WaitDynamic" THEN [e EXCEPT !.state = "CheckStatus"] ELSE e

\* the seconds Step Functions waits before retry number n + 1 of a state:
\* IntervalSeconds before the first, BackoffRate times the previous afterwards
RetryInterval(n, previous) ==
    IF n = 0 THEN IntervalSeconds ELSE previous * BackoffRate

\* CheckStatus: Task status_checker, ResultPath $.status_result, Next IsDone?
\* Retry on States.TaskFailed / States.Timeout, IntervalSeconds 60,
\* MaxAttempts 3, BackoffRate 2.0; no Catch.  interval is the wait before
\* the latest retry.
CheckStatus(e, result) ==
    IF e.state # "CheckStatus" THEN e
    ELSE IF result # "TaskFailed"
    THEN [e EXCEPT !.state = "IsDone?", !.status_result = result, !.retries = 0,
                   !.interval = 0]
    ELSE IF e.retries < MaxAttempts
    THEN [e EXCEPT !.retries = e.retries + 1,
                   !.interval = RetryInterval(e.retries, e.interval)]
    ELSE Ended(e, "Failed")

\* IsDone? with a ceiling on the wait, after which it gives up.
IsDone_GiveUp(e) ==
    IF e.state # "IsDone?" THEN e
    ELSE IF e.status_result = "done" THEN [e EXCEPT !.state = "ProcessManifest", !.pm = e.pm + 1]
    ELSE IF e.status_result = "error" \/ e.wait_seconds > 2 * BaseWait THEN Ended(e, "FailState")
    ELSE [e EXCEPT !.state = "DoubleWait"]

\* IsDone? without the Choice for error.
IsDone_NoErrorChoice(e) ==
    IF e.state # "IsDone?" THEN e
    ELSE IF e.status_result = "done" THEN [e EXCEPT !.state = "ProcessManifest", !.pm = e.pm + 1]
    ELSE [e EXCEPT !.state = "DoubleWait"]

\* IsDone?: Choice on $.status_result.status
IsDone(e) ==
    IF e.state # "IsDone?" THEN e
    ELSE IF e.status_result = "done" THEN [e EXCEPT !.state = "ProcessManifest", !.pm = e.pm + 1]
    ELSE IF e.status_result = "error" THEN Ended(e, "FailState")
    ELSE [e EXCEPT !.state = "DoubleWait"]

\* States.MathAdd on 32-bit integers
MathAdd(a, b) == a + b

\* DoubleWait passing on another task id than the one it received.
DoubleWait_OtherTask(e) ==
    IF e.state # "DoubleWait" THEN e
    ELSE [e EXCEPT !.state = "WaitDynamic", !.task_id = 3 - e.task_id,
                   !.wait_seconds = MathAdd(e.wait_seconds, e.wait_seconds),
                   !.status_result = e.status_result,
                   !.doubles = e.doubles + 1]

\* DoubleWait adding the base wait instead of the current wait.
DoubleWait_AddBase(e) ==
    IF e.state # "DoubleWait" THEN e
    ELSE [e EXCEPT !.state = "WaitDynamic", !.task_id = e.task_id,
                   !.wait_seconds = MathAdd(e.wait_seconds, BaseWait),
                   !.status_result = e.status_result,
                   !.doubles = e.doubles + 1]

\* DoubleWait: Pass, wait_seconds = States.MathAdd($.wait_seconds, $.wait_seconds)
DoubleWait(e) ==
    IF e.state # "DoubleWait" THEN e
    ELSE [e EXCEPT !.state = "WaitDynamic", !.task_id = e.task_id,
                   !.wait_seconds = MathAdd(e.wait_seconds, e.wait_seconds),
                   !.status_result = e.status_result,
                   !.doubles = e.doubles + 1]

SfnWaitDynamic(x) ==
    /\ x \in DOMAIN execs /\ execs[x].state = "WaitDynamic"
    /\ execs' = [execs EXCEPT ![x] = WaitDynamic(@)]
    /\ resp' = NoResponse
    /\ UNCHANGED <<now, requests, jobs, provider, manifest, queue, posts, triggers, config,
                   metadata, pixels, files, out>>

\* the status checker returns the provider's status of the task, or fails
SfnCheckStatus(x, fails) ==
    /\ x \in DOMAIN execs /\ execs[x].state = "CheckStatus"
    /\ execs' = [execs EXCEPT ![x] =
           CheckStatus(@, IF fails THEN "TaskFailed" ELSE provider[@.task_id])]
    /\ resp' = NoResponse
    /\ UNCHANGED <<now, requests, jobs, provider, manifest, queue, posts, triggers, config,
                   metadata, pixels, files, out>>

SfnIsDone(x) ==
    /\ x \in DOMAIN execs /\ execs[x].state = "IsDone?"
    /\ execs' = [execs EXCEPT ![x] = IsDone(@)]
    /\ resp' = NoResponse
    /\ UNCHANGED <<now, requests, jobs, provider, manifest, queue, posts, triggers, config,
                   metadata, pixels, files, out>>

SfnDoubleWait(x) ==
    /\ x \in DOMAIN execs /\ execs[x].state = "DoubleWait"
    /\ execs' = [execs EXCEPT ![x] = DoubleWait(@)]
    /\ resp' = NoResponse
    /\ UNCHANGED <<now, requests, jobs, provider, manifest, queue, posts, triggers, config,
                   metadata, pixels, files, out>>

\* ------------------------------------------------------------ fan-out

\* UPDATE ecostress_requests SET scenes_count = ? WHERE task_id = ?
SetScenesCount(er, task, n) ==
    [r \in DOMAIN er |->
        IF er[r].task_id = task THEN [er[r] EXCEPT !.scenes_count = n] ELSE er[r]]

\* A manifest file name; aid and doy are what the name's pattern encodes,
\* NULL where the name does not match it.
FileName(layer, aid, doy) == [layer |-> layer, aid |-> aid, doy |-> doy]

\* what a file name that does not match the pattern parses to
NoMatch == <<>>

\* the (AID, date) a file name parses to
ParseFileName(f) == IF f.aid = NULL \/ f.doy = NULL THEN NoMatch ELSE <<f.aid, f.doy>>

\* scene id {aid}_{date} of each file whose name parses
SceneIds(fl) == {ParseFileName(fl[i]) : i \in {j \in DOMAIN fl : ParseFileName(fl[j]) # NoMatch}}

\* A fan-out that gives up on the whole manifest at a name that does not parse.
FanOut_AbortOnBadName(task, fl) ==
    IF \E i \in DOMAIN fl : ParseFileName(fl[i]) = NoMatch
    THEN [kind |-> "fanout", messages |-> {}, scenes_count |-> 0]
    ELSE LET msgs == {[task_id |-> task, scene_id |-> sid,
                       files |-> {i \in DOMAIN fl : ParseFileName(fl[i]) = sid}] :
                         sid \in SceneIds(fl)} IN
         [kind |-> "fanout", messages |-> msgs, scenes_count |-> Cardinality(msgs)]

\* group the files by scene, one message {task_id, scene_id, files} per
\* scene, scenes_count = number of scenes; files are named by their position
\* in the manifest
FanOut(task, fl) ==
    LET parsed == {i \in DOMAIN fl : ParseFileName(fl[i]) # NoMatch}
        msgs == {[task_id |-> task, scene_id |-> sid,
                  files |-> {i \in parsed : ParseFileName(fl[i]) = sid}] :
                    sid \in SceneIds(fl)} IN
    [kind |-> "fanout", messages |-> msgs, scenes_count |-> Cardinality(msgs)]

\* a manifest processor invocation groups the manifest it retrieved
ManifestProcessorRun ==
    /\ out = NoOutput /\ pixels = <<>>
    /\ out' = FanOut(1, files)
    /\ UNCHANGED <<now, requests, jobs, provider, manifest, execs, queue, posts, triggers,
                   config, resp, metadata, pixels, files>>

\* one message per scene of the manifest, sent by execution x
SceneMessages(x, task, n) ==
    {[exec |-> x, task_id |-> task, scene |-> sc, receives |-> 0, jobId |-> 0] :
        sc \in 1..n}

\* ProcessManifest: Task manifest_processor with the task id, End.  The
\* manifest processor groups the manifest into scenes, sends one message per
\* scene and records the number of scenes; a retrieval failure fails the
\* execution and leaves scenes_count as it was.
SfnProcessManifest(x, ok) ==
    /\ x \in DOMAIN execs /\ execs[x].state = "ProcessManifest"
    /\ LET t == execs[x].task_id IN
       IF ok THEN
           /\ requests' = SetScenesCount(requests, t, manifest[t])
           /\ queue' = queue \cup SceneMessages(x, t, manifest[t])
           /\ execs' = [execs EXCEPT ![x] = Ended(@, "Succeeded")]
       ELSE
           /\ execs' = [execs EXCEPT ![x] = Ended(@, "Failed")]
           /\ UNCHANGED <<requests, queue>>
    /\ resp' = NoResponse
    /\ UNCHANGED <<now, jobs, provider, manifest, posts, triggers, config, metadata, pixels,
                   files, out>>

\* ------------------------------------------------------------- worker

\* pixel filtering of the processor, on the columns it filters by; LST stands
\* for the value columns LST, LST_err, QC, EmisWB and height, which are
\* filtered alike
NaN == NULL

QC_FILL_VALUE == 65535

QC_MANDATORY_MASK == 3

Pixel(lst, qc, cloud, wt) ==
    [LST |-> lst, QC |-> qc, cloud |-> cloud, wt |-> wt, LST_filter |-> lst]

\* a & b on non-negative integers
RECURSIVE BitAnd(_, _)
BitAnd(a, b) ==
    IF a = 0 \/ b = 0 THEN 0
    ELSE (a % 2) * (b % 2) + 2 * BitAnd(a \div 2, b \div 2)

\* INVALID_QC_VALUES = {15, 2501, 3525, 65535}; df["QC"].isin(INVALID_QC_VALUES)
qc_invalid_Blacklist(p) == p.QC \in {15, 2501, 3525, 65535}

\* ~np.isfinite(QC) | (qc == QC_FILL_VALUE) | ((qc & QC_MANDATORY_MASK) > 1)
qc_invalid(p) ==
    \/ p.QC = NaN
    \/ p.QC = QC_FILL_VALUE
    \/ BitAnd(p.QC, QC_MANDATORY_MASK) > 1

\* df[col_filter] = np.where(qc_invalid, np.nan, df[col])
FilterQuality(df) ==
    [i \in DOMAIN df |->
        [df[i] EXCEPT !.LST_filter = IF qc_invalid(df[i]) THEN NaN ELSE df[i].LST]]

\* np.where(df["cloud"] == 1, np.nan, ...)
FilterCloud(df) ==
    [i \in DOMAIN df |->
        [df[i] EXCEPT !.LST_filter = IF df[i].cloud = 1 THEN NaN ELSE @]]

\* df["wt"].isin([1]).any()
water_mask_flag(df) == \E i \in DOMAIN df : df[i].wt = 1

\* if not water_mask_flag: np.where(df["wt"] == 0, np.nan, df[col])
FilterWater_Inverted(df) ==
    IF ~water_mask_flag(df)
    THEN [i \in DOMAIN df |->
             [df[i] EXCEPT !.LST_filter = IF df[i].wt = 0 THEN NaN ELSE @]]
    ELSE df

\* if water_mask_flag: np.where(df["wt"] == 0, np.nan, df[col]); else "_wtoff"
FilterWater(df) ==
    IF water_mask_flag(df)
    THEN [i \in DOMAIN df |->
             [df[i] EXCEPT !.LST_filter = IF df[i].wt = 0 THEN NaN ELSE @]]
    ELSE df

\* the pixels whose filtered temperature is a value
Retained(df) == {i \in DOMAIN df : df[i].LST_filter # NaN}

MaxOf(S) == CHOOSE x \in S : \A y \in S : y <= x

\* bit 0 = quality-invalid, bit 1 = cloud, bit 2 = non-water
FilterFlags(p) ==
    (IF qc_invalid(p) THEN 1 ELSE 0)
    + 2 * (IF p.cloud = 1 THEN 1 ELSE 0)
    + 4 * (IF p.wt = 0 THEN 1 ELSE 0)

\* A histogram that counts a pixel once for each filter that rejects it.
Histogram_PerFilter(df) ==
    [b \in 0..7 |->
        IF b = 0 THEN Cardinality({i \in DOMAIN df : FilterFlags(df[i]) = 0})
        ELSE IF b = 1 THEN Cardinality({i \in DOMAIN df : qc_invalid(df[i])})
        ELSE IF b = 2 THEN Cardinality({i \in DOMAIN df : df[i].cloud = 1})
        ELSE IF b = 4 THEN Cardinality({i \in DOMAIN df : df[i].wt = 0})
        ELSE 0]

Histogram(df) ==
    [b \in 0..7 |-> Cardinality({i \in DOMAIN df : FilterFlags(df[i]) = b})]

\* statistics over the final filtered temperatures, with the filter histogram
Statistics(raw, df) ==
    LET vals == {df[i].LST_filter : i \in Retained(df)} IN
    [min_temp |-> IF vals = {} THEN NaN ELSE MinOf(vals),
     max_temp |-> IF vals = {} THEN NaN ELSE MaxOf(vals),
     data_points |-> Cardinality(Retained(df)),
     filter_stats |-> [total_pixels |-> Len(raw), histogram |-> Histogram(raw)]]

\* computeStats of the job page: the named counts read from the histogram
computeStats(stats) ==
    LET hist == stats.histogram
        total == stats.total_pixels IN
    [total |-> total,
     valid |-> hist[0],
     filtered |-> total - hist[0],
     filtered_by_qc |-> hist[1] + hist[3] + hist[5] + hist[7],
     filtered_by_cloud |-> hist[2] + hist[3] + hist[6] + hist[7],
     filtered_by_water |-> hist[4] + hist[5] + hist[6] + hist[7],
     qc_only |-> hist[1], cloud_only |-> hist[2], water_only |-> hist[4],
     qc_cloud |-> hist[3], qc_water |-> hist[5], cloud_water |-> hist[6],
     all_three |-> hist[7]]

\* steps 3 to 6 of the processor on one scene's record set
ProcessScene(raw) ==
    LET quality == FilterQuality(raw)
        cloud == FilterCloud(quality)
        df == FilterWater(cloud) IN
    [kind |-> "scene", quality |-> quality, cloud |-> cloud, df |-> df,
     wtoff |-> ~water_mask_flag(raw), stats |-> Statistics(raw, df)]

\* a processor invocation filters and summarises the record set it assembled
ProcessorRun ==
    /\ out = NoOutput /\ pixels # <<>>
    /\ out' = ProcessScene(pixels)
    /\ UNCHANGED <<now, requests, jobs, provider, manifest, execs, queue, posts, triggers,
                   config, resp, metadata, pixels, files>>

\* the record set the provider's files of a scene hold; it does not change
\* once the task is done
SceneData(task, scene) ==
    <<Pixel(290 + scene, 0, 0, 1), Pixel(280 + task, 2501, 0, 1), Pixel(300, 3, 1, 0)>>

\* the metadata row of a processed scene, keyed (feature_id, date)
MetadataRow(task, scene) ==
    LET res == ProcessScene(SceneData(task, scene)) IN
    [feature_id |-> scene, date |-> task, wtoff |-> res.wtoff, stats |-> res.stats]

\* A key on date alone.
SameKey_DateOnly(a, b) == a.date = b.date

SameKey(a, b) == a.feature_id = b.feature_id /\ a.date = b.date

\* A plain INSERT of the row.
Upsert_Insert(md, row) == Append(md, row)

\* upsert keyed (feature_id, date), overwriting a prior run's row
Upsert(md, row) ==
    IF \E i \in DOMAIN md : SameKey(md[i], row)
    THEN [i \in DOMAIN md |-> IF SameKey(md[i], row) THEN row ELSE md[i]]
    ELSE Append(md, row)

\* The queue hands a visible message to a processor invocation, which logs
\* its process job as started.
\* A processor that takes up the job row its scene already has.
WorkerStart_ReuseRow(m) ==
    /\ m \in queue /\ m.jobId = 0
    /\ LET old == {i \in JobIds(jobs, "process", m.task_id) : jobs[i].scene = m.scene}
           id == IF old = {} THEN Len(jobs) + 1 ELSE MinOf(old) IN
       /\ jobs' = IF old = {}
                  THEN Append(jobs, JobRow("process", m.task_id, m.scene, "started"))
                  ELSE [jobs EXCEPT ![id].status = "started"]
       /\ queue' = (queue \ {m}) \cup
                      {[m EXCEPT !.jobId = id, !.receives = m.receives + 1]}
    /\ resp' = NoResponse
    /\ UNCHANGED <<now, requests, provider, manifest, execs, posts, triggers, config,
                   metadata, pixels, files, out>>

WorkerStart(m) ==
    /\ m \in queue /\ m.jobId = 0
    /\ jobs' = Append(jobs, JobRow("process", m.task_id, m.scene, "started"))
    /\ queue' = (queue \ {m}) \cup
                   {[m EXCEPT !.jobId = Len(jobs) + 1, !.receives = m.receives + 1]}
    /\ resp' = NoResponse
    /\ UNCHANGED <<now, requests, provider, manifest, execs, posts, triggers, config,
                   metadata, pixels, files, out>>

\* The invocation ends: it has upserted the scene's metadata row, its job
\* becomes success and the message is deleted; or it raised before persisting,
\* its job becomes failed and the message becomes visible again.
WorkerFinish(m, ok) ==
    /\ m \in queue /\ m.jobId # 0
    /\ metadata' = IF ok THEN Upsert(metadata, MetadataRow(m.task_id, m.scene))
                   ELSE metadata
    /\ jobs' = [jobs EXCEPT ![m.jobId].status = IF ok THEN "success" ELSE "failed"]
    /\ queue' = IF ok THEN queue \ {m} ELSE (queue \ {m}) \cup {[m EXCEPT !.jobId = 0]}
    /\ resp' = NoResponse
    /\ UNCHANGED <<now, requests, provider, manifest, execs, posts, triggers, config, pixels,
                   files, out>>

\* The invocation is cut off by the function timeout (timeout = 900): the
\* runtime is stopped wherever the handler is, so no except branch runs and
\* the job row keeps the status it has; the scene's metadata row has been
\* upserted or not (persisted).  The message becomes visible again when its
\* visibility timeout ends.
WorkerTimeout(m, persisted) ==
    /\ m \in queue /\ m.jobId # 0
    /\ metadata' = IF persisted THEN Upsert(metadata, MetadataRow(m.task_id, m.scene))
                   ELSE metadata
    /\ queue' = (queue \ {m}) \cup {[m EXCEPT !.jobId = 0]}
    /\ resp' = NoResponse
    /\ UNCHANGED <<now, requests, jobs, provider, manifest, execs, posts, triggers, config,
                   pixels, files, out>>

\* -------------------------------------------- POST /api/admin/reprocess

\* The guard query without its task_id condition.
activeReprocess_AnyTask(er, pj, task) ==
    {r \in DOMAIN er :
        /\ er[r].trigger_type = "reprocess"
        /\ ecostress_requests_with_status(er[r], pj)
               \in {"submitted", "processing", "pending"}}

\* SELECT id, status FROM ecostress_requests_with_status WHERE task_id = ?
\*   AND trigger_type = 'reprocess' AND status IN ('submitted', 'processing',
\*   'pending') LIMIT 1
activeReprocess(er, pj, task) ==
    {r \in DOMAIN er :
        /\ er[r].task_id = task
        /\ er[r].trigger_type = "reprocess"
        /\ ecostress_requests_with_status(er[r], pj)
               \in {"submitted", "processing", "pending"}}

\* Lines 5-40: early returns, then the read of the original request.
\* request_id 0 stands for a body without request_id.
ReprocessPost(env, request_id) ==
    /\ IF env = "nodb" THEN
           /\ resp' = Response("reprocess", 500, <<>>, 0, 0)
           /\ UNCHANGED posts
       ELSE IF env = "noauth" THEN
           /\ resp' = Response("reprocess", 401, <<>>, 0, 0)
           /\ UNCHANGED posts
       ELSE IF request_id = 0 THEN
           /\ resp' = Response("reprocess", 400, <<>>, 0, 0)
           /\ UNCHANGED posts
       ELSE IF request_id \notin DOMAIN requests THEN
           /\ resp' = Response("reprocess", 404, <<>>, 0, 0)
           /\ UNCHANGED posts
       ELSE IF requests[request_id].task_id = NULL THEN
           /\ resp' = Response("reprocess", 400, <<>>, 0, 0)
           /\ UNCHANGED posts
       ELSE
           /\ HasFreeSlot(posts)
           /\ posts' = [posts EXCEPT ![FreeSlot(posts)] =
                  [pc |-> "guard", request_id |-> request_id,
                   taskId |-> requests[request_id].task_id, nowIns |-> 0]]
           /\ resp' = NoResponse
    /\ UNCHANGED <<now, requests, jobs, provider, manifest, execs, queue, triggers, config,
                   metadata, pixels, files, out>>

\* Lines 42-60: the guard query and the 409.
ReprocessGuard(p) ==
    /\ posts[p].pc = "guard"
    /\ IF activeReprocess(requests, jobs, posts[p].taskId) # {} THEN
           /\ resp' = Response("reprocess", 409, <<>>, 0, 0)
           /\ posts' = [posts EXCEPT ![p] = Idle]
       ELSE
           /\ resp' = NoResponse
           /\ posts' = [posts EXCEPT ![p].pc = "insert"]
    /\ UNCHANGED <<now, requests, jobs, provider, manifest, execs, queue, triggers, config,
                   metadata, pixels, files, out>>

\* Lines 62-82: const now = Date.now() and the INSERT of the reprocess row.
ReprocessInsert(p) ==
    /\ posts[p].pc = "insert"
    /\ requests' = Append(requests,
           [RequestRow(posts[p].taskId, "reprocess", now)
               EXCEPT !.start_date = requests[posts[p].request_id].start_date])
    /\ posts' = [posts EXCEPT ![p].pc = "invoke", ![p].nowIns = now]
    /\ resp' = NoResponse
    /\ UNCHANGED <<now, jobs, provider, manifest, execs, queue, triggers, config, metadata,
                   pixels, files, out>>

\* Lines 84-173: look the inserted id up and start the polling execution with
\* wait_seconds 0.  outcome: the StartExecution call answers ok, answers with
\* a non-OK status, or throws.
ReprocessInvoke(p, outcome) ==
    /\ posts[p].pc = "invoke"
    /\ LET newRequestId == InsertedId(requests, posts[p].nowIns) IN
       IF ~config.sfn THEN
           /\ resp' = Response("reprocess", 202, <<newRequestId>>, 0, 0)
           /\ UNCHANGED <<requests, execs>>
       ELSE IF outcome = "ok" THEN
           /\ execs' = Append(execs, Execution(posts[p].taskId, 0))
           /\ resp' = Response("reprocess", 200, <<newRequestId>>, 0, 0)
           /\ UNCHANGED requests
       ELSE
           /\ requests' = SetErrorMessage(requests, newRequestId)
           /\ resp' = Response("reprocess", IF outcome = "notok" THEN 502 ELSE 500,
                               <<newRequestId>>, 0, 0)
           /\ UNCHANGED execs
    /\ posts' = [posts EXCEPT ![p] = Idle]
    /\ UNCHANGED <<now, jobs, provider, manifest, queue, triggers, config, metadata, pixels,
                   files, out>>

Envs == {"ok", "nodb", "noauth"}

\* ------------------------------------------------- the whole system

Next ==
    \/ Tick
    \/ \E env \in Envs, date \in {"valid", "missing", "malformed"} : TriggerPost(env, date)
    \/ \E h \in 1..MaxTriggers, reached \in BOOLEAN : TriggerLookup(h, reached)
    \/ \E env \in Envs, start \in NULL..MaxDays, end \in NULL..MaxDays :
           RangePost(env, start, end)
    \/ \E h \in 1..MaxTriggers, reached \in BOOLEAN : RangeInsert(h, reached)
    \/ \E h \in 1..MaxTriggers, ok \in BOOLEAN : InitiatorFinish(h, ok)
    \/ \E t \in Tasks, n \in 0..MaxScenes : ProviderFinish(t, "done", n)
    \/ \E t \in Tasks : ProviderFinish(t, "error", 0)
    \/ \E x \in DOMAIN execs : SfnWaitDynamic(x)
    \/ \E x \in DOMAIN execs, fails \in BOOLEAN : SfnCheckStatus(x, fails)
    \/ \E x \in DOMAIN execs : SfnIsDone(x)
    \/ \E x \in DOMAIN execs : SfnDoubleWait(x)
    \/ \E x \in DOMAIN execs, ok \in BOOLEAN : SfnProcessManifest(x, ok)
    \/ \E env \in Envs, request_id \in 0..Len(requests) + 1 : ReprocessPost(env, request_id)
    \/ \E p \in 1..MaxPosts : ReprocessGuard(p)
    \/ \E p \in 1..MaxPosts : ReprocessInsert(p)
    \/ \E p \in 1..MaxPosts, outcome \in {"ok", "notok", "throw"} : ReprocessInvoke(p, outcome)
    \/ \E m \in queue : WorkerStart(m)
    \/ \E m \in queue, ok \in BOOLEAN : WorkerFinish(m, ok)
    \/ \E m \in queue, persisted \in BOOLEAN : WorkerTimeout(m, persisted)

Spec == Init /\ [][Next]_vars

\* ------------------------------------- the pipeline of one day's request
\* An authenticated one-day trigger, the polling execution of its task,
\* fan-out, the workers, and reprocess POSTs for it.

PipeTrigger ==
    \/ RangePost("ok", 1, 1)
    \/ \E h \in 1..MaxTriggers, reached \in BOOLEAN :
           NumRows(requests, "manual") < PipeRequests /\ RangeInsert(h, reached)
    \/ \E h \in 1..MaxTriggers, ok \in BOOLEAN : InitiatorFinish(h, ok)

PipeProvider ==
    \/ \E t \in Tasks, n \in 0..MaxScenes : ProviderFinish(t, "done", n)
    \/ \E t \in Tasks : ProviderFinish(t, "error", 0)

PipePolling ==
    \/ \E x \in DOMAIN execs : SfnWaitDynamic(x)
    \/ \E x \in DOMAIN execs, fails \in BOOLEAN : SfnCheckStatus(x, fails)
    \/ \E x \in DOMAIN execs : SfnIsDone(x)
    \/ \E x \in DOMAIN execs : execs[x].doubles < PipePolls /\ SfnDoubleWait(x)
    \/ \E x \in DOMAIN execs, ok \in BOOLEAN : SfnProcessManifest(x, ok)

PipeReprocessing ==
    \/ \E request_id \in DOMAIN requests : ReprocessPost("ok", request_id)
    \/ \E p \in 1..MaxPosts : ReprocessGuard(p)
    \/ \E p \in 1..MaxPosts :
           NumRows(requests, "reprocess") < PipeReprocess /\ ReprocessInsert(p)
    \/ \E p \in 1..MaxPosts, outcome \in {"ok", "notok", "throw"} : ReprocessInvoke(p, outcome)

PipeWorkers ==
    \/ \E m \in queue : Len(jobs) < PipeJobs /\ WorkerStart(m)
    \/ \E m \in queue, ok \in BOOLEAN : WorkerFinish(m, ok)

NextPipeline ==
    PipeTrigger \/ PipeProvider \/ PipePolling \/ PipeReprocessing \/ PipeWorkers

InitPipeline == Init /\ ~config.status_column

SpecPipeline == InitPipeline /\ [][NextPipeline]_vars

\* ------------------------------------------------ the trigger endpoints
\* Both trigger POSTs with every input, and the initiator they call.

NextTrigger ==
    \/ now < TrigTime /\ Tick
    \/ \E env \in Envs, date \in {"valid", "missing", "malformed"} :
           NumRows(requests, "manual") < TrigRequests /\ TriggerPost(env, date)
    \/ \E h \in 1..MaxTriggers, reached \in BOOLEAN : TriggerLookup(h, reached)
    \/ \E env \in Envs, start \in NULL..MaxDays, end \in NULL..MaxDays :
           RangePost(env, start, end)
    \/ \E h \in 1..MaxTriggers, reached \in BOOLEAN :
           NumRows(requests, "manual") < TrigRequests /\ RangeInsert(h, reached)
    \/ \E h \in 1..MaxTriggers, ok \in BOOLEAN : InitiatorFinish(h, ok)

SpecTrigger == Init /\ [][NextTrigger]_vars

\* ------------------------------------------------ the range trigger
\* Range POSTs with every kind of input: missing (0) and malformed (NULL)
\* dates, the first days, and a day far enough away for ranges of
\* MAX_RANGE_DAYS days and more.

RangeDates == {NULL, 0, 1, 2, 3, FarDay}

InitRange == Init /\ ~config.status_column /\ config.sfn

NextRange ==
    \/ \E env \in Envs, start \in RangeDates, end \in RangeDates : RangePost(env, start, end)
    \/ \E h \in 1..MaxTriggers, reached \in BOOLEAN :
           NumRows(requests, "manual") < RangeRequests /\ RangeInsert(h, reached)
    \/ \E h \in 1..MaxTriggers, ok \in BOOLEAN : InitiatorFinish(h, ok)

SpecRange == InitRange /\ [][NextRange]_vars

\* ------------------------------------------------ one polling execution
\* The state right after a polling execution was started for task 1: by the
\* initiator with the base wait, or by the reprocess endpoint with wait 0
\* after the first execution failed on its status checks.

InitPoll ==
    /\ now = 0
    /\ jobs = <<JobRow("submit", 1, 0, "success")>>
    /\ provider = [t \in Tasks |-> IF t = 1 THEN "processing" ELSE "none"]
    /\ manifest = [t \in Tasks |-> NULL]
    /\ queue = {}
    /\ posts = [p \in 1..MaxPosts |-> Idle]
    /\ triggers = [h \in 1..MaxTriggers |-> Idle]
    /\ config = [lambda |-> TRUE, sfn |-> TRUE, status_column |-> FALSE]
    /\ metadata = <<>>
    /\ NoInvocation
    /\ \/ /\ requests = <<RequestRow(1, "manual", 0)>>
          /\ execs = <<Execution(1, BaseWait)>>
          /\ resp = [Response("range", 200, <<1>>, 1, 0) EXCEPT !.count = 1]
       \/ /\ requests = <<RequestRow(1, "manual", 0), RequestRow(1, "reprocess", 0)>>
          /\ execs = <<Ended(Execution(1, BaseWait), "Failed"), Execution(1, 0)>>
          /\ resp = Response("reprocess", 200, <<2>>, 0, 0)

NextPoll ==
    \/ \E t \in Tasks, n \in 0..MaxScenes : ProviderFinish(t, "done", n)
    \/ \E t \in Tasks : ProviderFinish(t, "error", 0)
    \/ \E x \in DOMAIN execs : SfnWaitDynamic(x)
    \/ \E x \in DOMAIN execs, fails \in BOOLEAN : SfnCheckStatus(x, fails)
    \/ \E x \in DOMAIN execs : SfnIsDone(x)
    \/ \E x \in DOMAIN execs : execs[x].doubles < PollPolls /\ SfnDoubleWait(x)
    \/ \E x \in DOMAIN execs, ok \in BOOLEAN : SfnProcessManifest(x, ok)
    \/ \E m \in queue : Len(jobs) < PollJobs /\ WorkerStart(m)
    \/ \E m \in queue, ok \in BOOLEAN : WorkerFinish(m, ok)

SpecPoll == InitPoll /\ [][NextPoll]_vars

\* The polling machine under the scheduling of Step Functions: an execution
\* that can take a step eventually takes one.  The provider may finish at any
\* time or never; polling of an unfinished task is followed for PollPolls
\* rounds.
SfnStep(x) ==
    \/ SfnWaitDynamic(x)
    \/ \E fails \in BOOLEAN : SfnCheckStatus(x, fails)
    \/ SfnIsDone(x)
    \/ /\ x \in DOMAIN execs
       /\ execs[x].doubles < PollPolls \/ provider[execs[x].task_id] # "processing"
       /\ SfnDoubleWait(x)
    \/ \E ok \in BOOLEAN : SfnProcessManifest(x, ok)

NextPollLive ==
    \/ \E t \in Tasks, n \in 0..MaxScenes : ProviderFinish(t, "done", n)
    \/ \E t \in Tasks : ProviderFinish(t, "error", 0)
    \/ \E x \in 1..MaxExecs : SfnStep(x)
    \/ \E m \in queue : Len(jobs) < PollJobs /\ WorkerStart(m)
    \/ \E m \in queue, ok \in BOOLEAN : WorkerFinish(m, ok)

SpecPollLive ==
    InitPoll /\ [][NextPollLive]_vars /\ \A x \in 1..MaxExecs : WF_vars(SfnStep(x))

\* ------------------------------------------------------- the workers
\* The state right after the fan-out of task 1 with MaxScenes scenes, then
\* the deliveries of the scene messages to processor invocations.

InitWorker ==
    /\ now = 0
    /\ requests = <<[RequestRow(1, "manual", 0) EXCEPT !.scenes_count = MaxScenes]>>
    /\ jobs = <<JobRow("submit", 1, 0, "success")>>
    /\ provider = [t \in Tasks |-> IF t = 1 THEN "done" ELSE "none"]
    /\ manifest = [t \in Tasks |-> IF t = 1 THEN MaxScenes ELSE NULL]
    /\ execs = <<[Ended(Execution(1, BaseWait), "Succeeded") EXCEPT !.pm = 1]>>
    /\ queue = SceneMessages(1, 1, MaxScenes)
    /\ posts = [p \in 1..MaxPosts |-> Idle]
    /\ triggers = [h \in 1..MaxTriggers |-> Idle]
    /\ config = [lambda |-> TRUE, sfn |-> TRUE, status_column |-> FALSE]
    /\ resp = NoResponse
    /\ metadata = <<>>
    /\ NoInvocation

NextWorker ==
    \/ \E m \in queue : Len(jobs) < WorkJobs /\ WorkerStart(m)
    \/ \E m \in queue, ok \in BOOLEAN : WorkerFinish(m, ok)
    \/ \E m \in queue, persisted \in BOOLEAN : WorkerTimeout(m, persisted)

SpecWorker == InitWorker /\ [][NextWorker]_vars

\* ------------------------------------------------ the reprocess endpoint
\* The state in which the requests of tasks 1..Originals have completed with
\* one scene each, then reprocess POSTs with every input and the executions,
\* fan-out and workers they set off.

OriginalJobs(n) ==
    [i \in 1..(2 * n) |->
        IF i <= n THEN JobRow("submit", i, 0, "success")
        ELSE JobRow("process", i - n, 1, "success")]

InitReprocess ==
    /\ now = 0
    /\ requests = [r \in 1..Originals |->
                      [RequestRow(r, "manual", 0) EXCEPT !.scenes_count = 1]]
    /\ jobs = OriginalJobs(Originals)
    /\ provider = [t \in Tasks |-> IF t <= Originals THEN "done" ELSE "none"]
    /\ manifest = [t \in Tasks |-> IF t <= Originals THEN 1 ELSE NULL]
    /\ execs = [x \in 1..Originals |->
                   [Ended(Execution(x, BaseWait), "Succeeded") EXCEPT !.pm = 1]]
    /\ queue = {}
    /\ posts = [p \in 1..MaxPosts |-> Idle]
    /\ triggers = [h \in 1..MaxTriggers |-> Idle]
    /\ config \in [lambda : {TRUE}, sfn : BOOLEAN, status_column : {FALSE}]
    /\ resp = NoResponse
    /\ metadata = [t \in 1..Originals |-> MetadataRow(t, 1)]
    /\ NoInvocation

NextReprocess ==
    \/ now < RepTime /\ Tick
    \/ \E request_id \in 0..Len(requests) + 1 : ReprocessPost("ok", request_id)
    \/ \E p \in 1..MaxPosts : ReprocessGuard(p)
    \/ \E p \in 1..MaxPosts :
           NumRows(requests, "reprocess") < RepReprocess /\ ReprocessInsert(p)
    \/ \E p \in 1..MaxPosts, outcome \in {"ok", "notok", "throw"} : ReprocessInvoke(p, outcome)
    \/ \E x \in DOMAIN execs : SfnWaitDynamic(x)
    \/ \E x \in DOMAIN execs : SfnCheckStatus(x, FALSE)
    \/ \E x \in DOMAIN execs : SfnIsDone(x)
    \/ \E x \in DOMAIN execs, ok \in BOOLEAN : SfnProcessManifest(x, ok)
    \/ \E m \in queue : Len(jobs) < RepJobs /\ WorkerStart(m)
    \/ \E m \in queue, ok \in BOOLEAN : WorkerFinish(m, ok)

SpecReprocess == InitReprocess /\ [][NextReprocess]_vars

\* The reprocess endpoint with what runs by itself: a handler that was
\* invoked runs to its response, an execution that can take a step takes it,
\* a delivered message is worked on.  POSTs arrive whenever the operator
\* sends them.
HandlerStep ==
    \/ \E p \in 1..MaxPosts : ReprocessGuard(p)
    \/ \E p \in 1..MaxPosts : ReprocessInsert(p)
    \/ \E p \in 1..MaxPosts, outcome \in {"ok", "notok", "throw"} : ReprocessInvoke(p, outcome)

ExecutionStep ==
    \/ \E x \in DOMAIN execs : SfnWaitDynamic(x)
    \/ \E x \in DOMAIN execs : SfnCheckStatus(x, FALSE)
    \/ \E x \in DOMAIN execs : SfnIsDone(x)
    \/ \E x \in DOMAIN execs, ok \in BOOLEAN : SfnProcessManifest(x, ok)

DeliveryStep ==
    \/ \E m \in queue : Len(jobs) < LiveJobs /\ WorkerStart(m)
    \/ \E m \in queue, ok \in BOOLEAN : WorkerFinish(m, ok)

NextReprocessLive ==
    \/ \E request_id \in DOMAIN requests :
           NumRows(requests, "reprocess") < LiveReprocess /\ ReprocessPost("ok", request_id)
    \/ HandlerStep
    \/ ExecutionStep
    \/ DeliveryStep

SpecReprocessLive ==
    /\ InitReprocess
    /\ [][NextReprocessLive]_vars
    /\ WF_vars(HandlerStep) /\ WF_vars(ExecutionStep) /\ WF_vars(DeliveryStep)

\* ------------------------------------------------- the quality filter
\* One processor invocation on a scene of one pixel, for every 16-bit quality
\* code and every cloud and water flag.

QCodes == 0..65535

Flags == {0, 1}

Quiet ==
    /\ now = 0
    /\ requests = <<>>
    /\ jobs = <<>>
    /\ provider = [t \in Tasks |-> "none"]
    /\ manifest = [t \in Tasks |-> NULL]
    /\ execs = <<>>
    /\ queue = {}
    /\ posts = [p \in 1..MaxPosts |-> Idle]
    /\ triggers = [h \in 1..MaxTriggers |-> Idle]
    /\ config = [lambda |-> TRUE, sfn |-> TRUE, status_column |-> FALSE]
    /\ resp = NoResponse
    /\ metadata = <<>>

InitQuality ==
    /\ Quiet
    /\ pixels \in {<<Pixel(300, q, c, w)>> : q \in QCodes, c \in Flags, w \in Flags}
    /\ files = <<>>
    /\ out = NoOutput

NextQuality == ProcessorRun

SpecQuality == InitQuality /\ [][NextQuality]_vars

\* ------------------------------------------------------ scene filtering
\* One processor invocation on every scene of up to MaxPixels pixels over a
\* table of quality codes and every cloud and water flag.

SceneQCodes == {0, 2501, 3, 65535}

RECURSIVE Scenes(_)
Scenes(n) ==
    IF n = 0 THEN {<<>>}
    ELSE Scenes(n - 1) \cup
         {Append(sc, Pixel(300 + Len(sc), q, c, w)) :
             sc \in {t \in Scenes(n - 1) : Len(t) = n - 1},
             q \in SceneQCodes, c \in Flags, w \in Flags}

InitScene ==
    /\ Quiet
    /\ pixels \in Scenes(MaxPixels) \ {<<>>}
    /\ files = <<>>
    /\ out = NoOutput

NextScene == ProcessorRun

SpecScene == InitScene /\ [][NextScene]_vars

\* ------------------------------------------------------ manifest grouping
\* One manifest processor invocation on every manifest of up to MaxFiles
\* files, over two layers, two areas and two acquisition times and a name
\* that does not match the pattern.

FileNames ==
    {FileName(l, a, d) : l \in {"LST", "QC"}, a \in 1..2, d \in 1..2}
        \cup {FileName("README", NULL, NULL)}

RECURSIVE Manifests(_)
Manifests(n) ==
    IF n = 0 THEN {<<>>}
    ELSE Manifests(n - 1) \cup
         {Append(fl, f) : fl \in {t \in Manifests(n - 1) : Len(t) = n - 1}, f \in FileNames}

InitFanOut ==
    /\ Quiet
    /\ pixels = <<>>
    /\ files \in Manifests(MaxFiles)
    /\ out = NoOutput

NextFanOut == ManifestProcessorRun

SpecFanOut == InitFanOut /\ [][NextFanOut]_vars

\* =================================================================== claims

Active == {"pending", "submitted", "processing"}

Finished == {"completed", "completed_with_errors", "failed"}

\* reprocess requests of a task whose derived status is active
ActiveReprocessRows(task) ==
    {r \in DOMAIN requests :
        /\ requests[r].task_id = task
        /\ requests[r].trigger_type = "reprocess"
        /\ Status(r) \in Active}

\* C1: in every reachable state at most one reprocess request with derived
\* status pending, submitted or processing exists per task id.
C1_OneActiveReprocess ==
    \A t \in Tasks : Cardinality(ActiveReprocessRows(t)) <= 1

\* what handler p did when it left the guard
GuardRejected(p) ==
    /\ posts'[p] = Idle
    /\ resp'.endpoint = "reprocess" /\ resp'.code = 409
    /\ UNCHANGED <<requests, jobs, execs, queue>>

GuardPassed(p) ==
    /\ posts'[p] = [posts[p] EXCEPT !.pc = "insert"]
    /\ resp'.code # 409

\* C2: a reprocess POST for task T that reaches the guard while a reprocess
\* request of T is active returns 409 and changes no row, starts no execution;
\* one that reaches the guard while no reprocess request of its own task is
\* active passes it, whatever is active for other tasks.
C2_Guard ==
    [][\A p \in 1..MaxPosts :
          (posts[p].pc = "guard" /\ posts'[p] # posts[p]) =>
              IF ActiveReprocessRows(posts[p].taskId) # {}
              THEN GuardRejected(p)
              ELSE GuardPassed(p)]_vars

\* C2 case: a POST for task 2 has passed the guard while a reprocess request
\* of task 1 is active and a POST has just been answered 409.
C2_Witness ==
    /\ resp.code = 409
    /\ ActiveReprocessRows(1) # {}
    /\ \E p \in 1..MaxPosts : posts[p].pc = "insert" /\ posts[p].taskId = 2

Rank(st) ==
    IF st = "pending" THEN 0
    ELSE IF st = "submitted" THEN 1
    ELSE IF st = "processing" THEN 2
    ELSE 3

\* C3: no step moves the derived status of a request to an earlier stage of
\* pending < submitted < processing < {completed, completed_with_errors, failed}.
C3_Monotonic ==
    [][\A r \in DOMAIN requests :
          Rank(ecostress_requests_with_status(requests[r], jobs))
              <= Rank(ecostress_requests_with_status(requests'[r], jobs'))]_vars

\* C3 case: a request is finished, a reprocess request of its task exists and
\* a scene of the task has been processed more than once.
C3_Witness ==
    \E r \in DOMAIN requests :
        /\ Status(r) \in Finished
        /\ \E q \in DOMAIN requests :
               requests[q].task_id = requests[r].task_id
               /\ requests[q].trigger_type = "reprocess"
        /\ ProcessCount(jobs, requests[r].task_id, {"success", "failed"})
               > requests[r].scenes_count
        /\ requests[r].scenes_count > 0

NoFailedSubmit(task) ==
    \A i \in JobIds(jobs, "submit", task) : jobs[i].status # "failed"

CountReached(r) ==
    /\ requests[r].scenes_count # NULL
    /\ ProcessCount(jobs, requests[r].task_id, {"success", "failed"})
           >= requests[r].scenes_count

\* C4: for a request with a task id and no failed submit job, the status is
\* completed or completed_with_errors exactly when scenes_count is set and
\* the success and failed process jobs of the task number at least
\* scenes_count; completed_with_errors exactly when one of them is failed;
\* processing otherwise.
C4_Completion ==
    \A r \in DOMAIN requests :
        (requests[r].task_id # NULL /\ NoFailedSubmit(requests[r].task_id)) =>
            /\ Status(r) \in {"completed", "completed_with_errors"} <=> CountReached(r)
            /\ Status(r) = "completed_with_errors" <=>
                   /\ CountReached(r)
                   /\ ProcessCount(jobs, requests[r].task_id, {"failed"}) > 0
            /\ ~CountReached(r) => Status(r) = "processing"

\* C4 case: two scenes, one processed with success and one failed.
C4_Witness ==
    \E r \in DOMAIN requests :
        /\ requests[r].scenes_count = 2
        /\ ProcessCount(jobs, requests[r].task_id, {"success"}) = 1
        /\ ProcessCount(jobs, requests[r].task_id, {"failed"}) = 1
        /\ Status(r) = "completed_with_errors"

\* C5: on the schema the view is defined on, a request whose submission
\* failed before a task id was assigned (the initiator call returned an error
\* or threw, which the endpoint records in error_message) is derived failed.
C5_FailedSubmission ==
    ~config.status_column =>
        \A r \in DOMAIN requests :
            (requests[r].task_id = NULL /\ requests[r].error_message)
                => Status(r) = "failed"

\* the execution ended in FailState or on exhausted CheckStatus retries
PollFailed(e) == e.state = "FailState" \/ (e.state = "Failed" /\ e.pm = 0)

\* C6: after a polling execution ended in FailState or on exhausted
\* CheckStatus retries, a failed submit job exists for its task, the requests
\* of the task are derived failed, and the execution has enqueued no message.
C6_PollFailureRecorded ==
    \A x \in DOMAIN execs :
        PollFailed(execs[x]) =>
            /\ \E i \in JobIds(jobs, "submit", execs[x].task_id) : jobs[i].status = "failed"
            /\ \A r \in DOMAIN requests :
                   requests[r].task_id = execs[x].task_id => Status(r) = "failed"
            /\ \A m \in queue : m.exec # x

RECURSIVE Pow2(_)
Pow2(k) == IF k = 0 THEN 1 ELSE 2 * Pow2(k - 1)

\* C7: after k passes through DoubleWait the wait of an execution started
\* with base b is b * 2^k, and every pass doubles it.
C7_Backoff ==
    \A x \in DOMAIN execs :
        Running(execs[x]) =>
            execs[x].wait_seconds = execs[x].input.wait_seconds * Pow2(execs[x].doubles)

\* C7 case: three passes from the base wait: 30, 60, 120, 240.
C7_Witness ==
    \E x \in DOMAIN execs :
        /\ execs[x].doubles = 3
        /\ execs[x].input.wait_seconds = BaseWait
        /\ execs[x].wait_seconds = 240

\* C8: ProcessManifest is entered only from IsDone? holding the result done of
\* the CheckStatus before it, and at most once; IsDone? holding error ends in
\* FailState, after which nothing happens; any other result leads through
\* DoubleWait and WaitDynamic back to CheckStatus.
C8_Routing ==
    [][\A x \in DOMAIN execs :
          LET e == execs[x]
              f == execs'[x] IN
          /\ f.pm > e.pm =>
                 /\ e.state = "IsDone?" /\ e.status_result = "done"
                 /\ f.state = "ProcessManifest" /\ f.pm = 1
          /\ (f.state = "ProcessManifest" /\ e.state # "ProcessManifest") => f.pm > e.pm
          /\ (f.state = "IsDone?" /\ e.state # "IsDone?") =>
                 e.state = "CheckStatus" /\ f.status_result = provider[e.task_id]
          /\ (e.state = "IsDone?" /\ e.status_result = "error" /\ f # e) =>
                 f.state = "FailState" /\ f.pm = 0
          /\ e.state = "FailState" => f = e
          /\ (e.state = "IsDone?" /\ e.status_result \notin {"done", "error"} /\ f # e) =>
                 f.state = "DoubleWait"
          /\ (e.state = "DoubleWait" /\ f # e) => f.state = "WaitDynamic"
          /\ (e.state = "WaitDynamic" /\ f # e) => f.state = "CheckStatus"]_vars

\* C8 case: an execution went round the loop and then saw done.
C8_Witness ==
    \E x \in DOMAIN execs :
        execs[x].state = "ProcessManifest" /\ execs[x].doubles >= 1 /\ execs[x].pm = 1

\* C9: no reprocess row is inserted for an original request older than the
\* retention window.
C9_StaleRejected ==
    [][\A p \in 1..MaxPosts :
          (posts[p].pc = "insert" /\ posts'[p].pc = "invoke") =>
              now - requests[posts[p].request_id].created_at <= RetentionWindow]_vars

\* C10: no request row carries a stored status.
C10_NoStoredStatus ==
    \A r \in DOMAIN requests : requests[r].status = "none"

SomeWater == \E i \in DOMAIN pixels : pixels[i].wt = 1

\* pixels that passed the quality and cloud filters
PassedQualityCloud == {i \in DOMAIN pixels : out.cloud[i].LST_filter # NaN}

\* C13: if at least one pixel of the scene is water-flagged, no pixel with
\* water flag 0 is in the output; if none is, the output is the set of pixels
\* that passed the quality and cloud filters; water-off is true exactly in
\* the second case.
C13_WaterFilter ==
    out # NoOutput =>
        /\ SomeWater => \A i \in Retained(out.df) : pixels[i].wt # 0
        /\ SomeWater =>
               Retained(out.df) = {i \in PassedQualityCloud : pixels[i].wt = 1}
        /\ ~SomeWater => Retained(out.df) = PassedQualityCloud /\ out.df = out.cloud
        /\ out.wtoff <=> ~SomeWater

\* C13 case: a scene without water whose land pixels are retained.
C13_Witness ==
    /\ out # NoOutput /\ ~SomeWater /\ out.wtoff
    /\ Cardinality(Retained(out.df)) >= 2

RECURSIVE SumTo(_, _)
SumTo(h, b) == IF b < 0 THEN 0 ELSE h[b] + SumTo(h, b - 1)

Bit(c) == IF c THEN 1 ELSE 0

\* the bucket of a pixel as the claim states it
BucketOf(p) ==
    Bit(p.QC = 65535 \/ p.QC % 4 > 1) + 2 * Bit(p.cloud = 1) + 4 * Bit(p.wt = 0)

\* C14: each pixel is counted in exactly one of the 8 buckets, the one with
\* index (quality-invalid) + 2*(cloud) + 4*(non-water), so the buckets sum
\* to total_pixels.
C14_Histogram ==
    out # NoOutput =>
        LET fs == out.stats.filter_stats IN
        /\ fs.total_pixels = Len(pixels)
        /\ \A b \in 0..7 :
               fs.histogram[b] = Cardinality({i \in DOMAIN pixels : BucketOf(pixels[i]) = b})
        /\ SumTo(fs.histogram, 7) = fs.total_pixels
        /\ LET cs == computeStats(fs) IN
           cs.filtered = cs.qc_only + cs.cloud_only + cs.qc_cloud + cs.water_only
                         + cs.qc_water + cs.cloud_water + cs.all_three

\* C14 case: three pixels in three different buckets.
C14_Witness ==
    /\ out # NoOutput
    /\ Cardinality({b \in 0..7 : out.stats.filter_stats.histogram[b] = 1}) = 3

Parses(f) == f.aid # NULL /\ f.doy # NULL

\* C15: fan-out emits exactly one message per distinct (areaId, timestamp)
\* parsed from the file names; a file whose name parses is in the file list
\* of exactly one message, the one of its scene; a file whose name does not
\* parse is in none and stops nothing; scenes_count is the number of messages.
C15_FanOut ==
    out # NoOutput =>
        LET scenes == {<<files[i].aid, files[i].doy>> :
                          i \in {j \in DOMAIN files : Parses(files[j])}} IN
        /\ \A sid \in scenes :
               Cardinality({m \in out.messages : m.scene_id = sid}) = 1
        /\ \A m \in out.messages : m.scene_id \in scenes /\ m.task_id = 1
        /\ \A i \in DOMAIN files :
               IF Parses(files[i])
               THEN /\ Cardinality({m \in out.messages : i \in m.files}) = 1
                    /\ \A m \in out.messages :
                           i \in m.files <=> m.scene_id = <<files[i].aid, files[i].doy>>
               ELSE \A m \in out.messages : i \notin m.files
        /\ out.scenes_count = Cardinality(out.messages)
        /\ out.scenes_count = Cardinality(scenes)

\* C15 case: a manifest with a name that does not parse, from which two
\* scenes were emitted.
C15_Witness ==
    /\ out # NoOutput /\ out.scenes_count = 2
    /\ \E i \in DOMAIN files : ~Parses(files[i])

\* the execution has reached ProcessManifest, ended in FailState, or failed
PollEnded(x) ==
    /\ x \in DOMAIN execs
    /\ execs[x].pm = 1 \/ execs[x].state \in {"FailState", "Failed", "Succeeded"}

ProviderFinished(x) ==
    x \in DOMAIN execs /\ provider[execs[x].task_id] \in {"done", "error"}

\* while the result is neither done nor error the machine goes round again,
\* whatever the number of rounds and the wait have grown to
LoopsOn(e) ==
    (e.state = "IsDone?" /\ e.status_result \notin {"done", "error"}) =>
        /\ IsDone(e).state = "DoubleWait"
        /\ DoubleWait(IsDone(e)).state = "WaitDynamic"
        /\ DoubleWait(IsDone(e)).wait_seconds = 2 * e.wait_seconds
        /\ WaitDynamic(DoubleWait(IsDone(e))).state = "CheckStatus"

ScenesDone(task) ==
    {jobs[j].scene : j \in {i \in JobIds(jobs, "process", task) :
                               jobs[i].status \in {"success", "failed"}}}

\* C17: a request is derived completed or completed_with_errors only when
\* every scene of its task has a process job in success or failed.
C17_AllScenesDone ==
    \A r \in DOMAIN requests :
        Status(r) \in {"completed", "completed_with_errors"} =>
            \A sc \in 1..requests[r].scenes_count : sc \in ScenesDone(requests[r].task_id)

running(task) == {x \in DOMAIN execs : execs[x].task_id = task /\ Running(execs[x])}

\* C18: at most one polling execution is running per task id.
C18_OneExecutionPerTask ==
    \A t \in Tasks : Cardinality(running(t)) <= 1

\* C19: every pass through DoubleWait makes the wait before the next status
\* check strictly longer than the wait before the previous one.
C19_StrictlyLonger ==
    [][\A x \in DOMAIN execs :
          (execs[x].state = "DoubleWait" /\ execs'[x].state = "WaitDynamic") =>
              execs'[x].wait_seconds > execs[x].wait_seconds]_vars

\* C20: a failing CheckStatus is retried at most MaxAttempts = 3 times, every
\* retry comes IntervalSeconds = 60 seconds after the failure, and a
\* CheckStatus that fails with the retries exhausted ends the execution as
\* failed, ProcessManifest never invoked.
C20_FixedRetry ==
    /\ [](\A x \in DOMAIN execs :
             /\ execs[x].retries <= MaxAttempts
             /\ execs[x].retries >= 1 => execs[x].interval = IntervalSeconds)
    /\ [][\A x \in DOMAIN execs :
             (execs[x].state = "CheckStatus" /\ execs'[x].state # "CheckStatus") =>
                 \/ execs'[x].state = "IsDone?"
                 \/ /\ execs[x].retries = MaxAttempts
                    /\ execs'[x].state = "Failed"
                    /\ execs'[x].pm = 0]_vars

\* C21: a reprocess request whose Step Function start failed (its row carries
\* the error_message the endpoint wrote) is derived failed.
C21_StartFailureDerivedFailed ==
    \A r \in DOMAIN requests :
        (requests[r].trigger_type = "reprocess" /\ requests[r].error_message) =>
            Status(r) = "failed"

\* the process jobs whose invocation is running
InFlight == {m.jobId : m \in {n \in queue : n.jobId # 0}}

\* C22: no process JobRecord stays started after its invocation has ended:
\* every process job in status started belongs to a running invocation.
C22_NoJobStaysStarted ==
    \A j \in DOMAIN jobs :
        (jobs[j].job_type = "process" /\ jobs[j].status = "started") => j \in InFlight

\* what identifies a row of processing_jobs apart from its id
JobKey(j) == <<j.job_type, j.scene>>

\* what identifies a row of ecostress_requests apart from its id
RequestKey(r) == <<r.trigger_type, r.created_at>>

\* C23: no step deletes a row of processing_jobs or ecostress_requests; a new
\* job row gets an id above every id in use and the rows that exist keep
\* theirs; and the status of a job row changes only from started to success
\* or from started to failed.
C23_LedgerAppendOnly ==
    [][/\ Len(jobs') >= Len(jobs)
       /\ Len(requests') >= Len(requests)
       /\ \A j \in DOMAIN jobs :
              /\ JobKey(jobs'[j]) = JobKey(jobs[j])
              /\ \/ jobs'[j].status = jobs[j].status
                 \/ /\ jobs[j].status = "started"
                    /\ jobs'[j].status \in {"success", "failed"}
       /\ \A r \in DOMAIN requests : RequestKey(requests'[r]) = RequestKey(requests[r])]_vars

\* C23 case: a scene's message was redelivered after its job had failed, and
\* a reprocess request has been inserted as well.
C23_Witness ==
    /\ \E i, j \in DOMAIN jobs :
           /\ i < j
           /\ jobs[i].job_type = "process" /\ jobs[j].job_type = "process"
           /\ jobs[i].task_id = jobs[j].task_id /\ jobs[i].scene = jobs[j].scene
           /\ jobs[i].status = "failed" /\ jobs[j].status = "success"
    /\ \E r \in DOMAIN requests : requests[r].trigger_type = "reprocess"

\* the metadata row belongs to the scene of message m
RowOf(row, m) == row.feature_id = m.scene /\ row.date = m.task_id

C25_InlineEqualsView ==
    \A r \in DOMAIN requests :
        /\ getEcostressRequests(requests[r], jobs) = Status(r)
        /\ getEcostressRequestDetail(requests[r], jobs) = Status(r)

\* the process jobs of a task in success or failed that were written after
\* the original requests had completed, which is when the reprocess requests
\* were made
OwnFinished(task) ==
    {j \in JobIds(jobs, "process", task) :
        j > Len(OriginalJobs(Originals)) /\ jobs[j].status \in {"success", "failed"}}

\* C26: a reprocess request is derived completed or completed_with_errors
\* only when each of its scenes has a finished process job written by the
\* reprocess run; the jobs the original request left do not count.
C26_OwnJobsOnly ==
    \A r \in DOMAIN requests :
        (/\ requests[r].trigger_type = "reprocess"
         /\ Status(r) \in {"completed", "completed_with_errors"}) =>
            \A sc \in 1..requests[r].scenes_count :
                \E j \in OwnFinished(requests[r].task_id) : jobs[j].scene = sc

\* a reprocess row for which no execution was started: the start failed and
\* the endpoint recorded the error, or it was skipped for lack of credentials
Unstarted(r) ==
    /\ r \in DOMAIN requests
    /\ requests[r].trigger_type = "reprocess"
    /\ requests[r].error_message \/ ~config.sfn

Blocks(r) == r \in ActiveReprocessRows(requests[r].task_id)

\* C27: a reprocess row whose Step Function start failed or was skipped
\* eventually stops being an active reprocess request of its task, so that
\* the guard lets a later POST for the task through.
C27_NotBlockedForEver ==
    \A r \in 1..(Originals + LiveReprocess) :
        (Unstarted(r) /\ posts = [p \in 1..MaxPosts |-> Idle]) ~> (Unstarted(r) /\ ~Blocks(r))

\* C28: for every scene, water-off scenes included, the admin pages' valid
\* (histogram bucket 0) is the number of pixels the filters retained and
\* their filtered (total - valid) is the number of pixels removed.
C28_ValidIsRetained ==
    out # NoOutput =>
        LET cs == computeStats(out.stats.filter_stats)
            kept == Cardinality(Retained(out.df)) IN
        /\ cs.valid = kept
        /\ cs.filtered = Len(pixels) - kept

\* the range handler h answers in this step
RangeAnswers(h) ==
    /\ triggers[h].pc # "idle" /\ triggers[h].kind = "range"
    /\ triggers'[h] = Idle

C30_TaskIdKept ==
    /\ [](\A x \in DOMAIN execs :
             Running(execs[x]) => execs[x].task_id = execs[x].input.task_id)
    /\ [][\A x \in DOMAIN execs :
             LET e == execs[x]
                 f == execs'[x] IN
             /\ (e.state = "DoubleWait" /\ f # e) =>
                    /\ f.state = "WaitDynamic"
                    /\ f.task_id = e.task_id
                    /\ f.status_result = e.status_result
                    /\ f.input = e.input
             /\ (e.state = "CheckStatus" /\ f.state = "IsDone?") =>
                    f.status_result = provider[e.input.task_id]
             /\ (e.state = "ProcessManifest" /\ f.state = "Succeeded") =>
                    /\ queue' # queue => manifest[e.input.task_id] > 0
                    /\ \A m \in queue' \ queue :
                           m.exec = x /\ m.task_id = e.input.task_id]_vars

\* C30 case: an execution reaches ProcessManifest after two passes through
\* DoubleWait.
C30_Witness ==
    \E x \in DOMAIN execs :
        /\ execs[x].state = "ProcessManifest"
        /\ execs[x].doubles >= 2
        /\ execs[x].task_id = execs[x].input.task_id
====
